---- MODULE Spec2Model ----
(***************************************************************************)
(* GetAttributes request / response payloads of PyKMIP                     *)
(* (kmip/core/messages/payloads/get_attributes.py).                        *)
(*                                                                         *)
(* A stream is a sequence of cells (natural numbers).  A field is encoded  *)
(* as <<tag, length>> followed by `length` value cells; a payload is a     *)
(* struct whose value is the concatenation of its fields.  A text value is *)
(* a sequence of cells; an optional value is <<>> (None) or <<v>>.         *)
(***************************************************************************)
EXTENDS Integers, Sequences, FiniteSets, TLC

VARIABLES client, req, resp, heap, last

vars == <<client, req, resp, heap, last>>

(***************************************************************************)
(* Bounds of the model.                                                    *)
(***************************************************************************)
\* longest list handed to the attribute_names setter
MaxNames == 3
\* most fields in the body of a stream handed to read
MaxFields == 2
\* longest list of attributes the caller builds
MaxAttrs == 2

(***************************************************************************)
(* enums.Tags                                                              *)
(***************************************************************************)
UNIQUE_IDENTIFIER == 1
ATTRIBUTE_NAME == 2
ATTRIBUTE == 3
REQUEST_PAYLOAD == 4
RESPONSE_PAYLOAD == 5

\* a stray cell that is no tag of the registry
Junk == <<0>>

(***************************************************************************)
(* Values                                                                  *)
(***************************************************************************)
\* list objects: Own is a list only the response payload refers to, Shared is
\* the list the caller's variable L refers to
Own == "own"

Shared == "caller"

ListIds == {Own, Shared}

\* text values; their cells collide with tag numbers on purpose
Strings == {<<1>>, <<2, 1>>}

None == <<>>

Some(v) == <<v>>

Str(s) == [kind |-> "str", val |-> s]

Attr(v) == [kind |-> "attr", val |-> v]

\* an object that is neither a string nor an Attribute
NonConforming == [kind |-> "int", val |-> <<>>]

AttrX == Attr(<<2, 0>>)

AttrY == Attr(<<3>>)

Attributes == {AttrX, AttrY}

NameElems == {Str(s) : s \in Strings} \cup {NonConforming}

AttrElems == Attributes \cup {NonConforming}

RECURSIVE SeqsUpTo(_, _)
SeqsUpTo(S, n) ==
    IF n = 0 THEN {<<>>}
    ELSE LET shorter == SeqsUpTo(S, n - 1)
         IN  shorter \cup {Append(q, x) : q \in {r \in shorter : Len(r) = n - 1}, x \in S}

Range(q) == {q[k] : k \in 1 .. Len(q)}

\* values a caller may assign: None, a list, or something that is no list
NoneValue == [kind |-> "none", items |-> <<>>]

ListValue(q) == [kind |-> "list", items |-> q]

\* e.g. attribute_names = 123
NonListValue == [kind |-> "other", items |-> <<>>]

(***************************************************************************)
(* Errors                                                                  *)
(***************************************************************************)
NoError == "none"

TypeFault == "TypeError"

MissingFieldFault == "InvalidField"

MalformedEncodingFault == "InvalidKmipEncoding"

(***************************************************************************)
(* Collaborators: streams, primitives.TextString, objects.Attribute and    *)
(* primitives.Struct                                                       *)
(***************************************************************************)
Drop(s, n) == SubSeq(s, n + 1, Len(s))

Take(s, n) == SubSeq(s, 1, n)

\* Base.is_tag_next: non-consuming look at the next tag
is_tag_next(tag, tstream) == Len(tstream) > 0 /\ tstream[1] = tag

\* Base.is_oversized: bytes left in the bounded stream are an error
is_oversized(tstream) == IF Len(tstream) > 0 THEN MalformedEncodingFault ELSE NoError

\* TextString.write / Attribute.write: tag, length, value
FieldWrite(tag, value) == <<tag, Len(value)>> \o value

\* TextString.read / Attribute.read: the value of the field at the head
FieldValue(tstream) == SubSeq(tstream, 3, 2 + tstream[2])

\* ... and the stream after that field
FieldRest(tstream) == Drop(tstream, 2 + tstream[2])

\* Struct.write: tag and length of the payload
StructHeader(tag, length) == <<tag, length>>

\* Struct.read: the length declared in the header
StructLength(istream) == istream[2]

\* the stream after the header
StructBody(istream) == Drop(istream, 2)

(***************************************************************************)
(* GetAttributesRequestPayload: [uid, names] are _uid and _attribute_names *)
(***************************************************************************)
\* e.g. uid = "abc"
TextValue(s) == [kind |-> "str", items |-> s]

\* __init__, before the setters run
NewRequest == [uid |-> None, names |-> <<>>]

\* the uid property
GetUid(p) == IF p.uid # None THEN Some(p.uid[1]) ELSE p.uid

\* the uid setter
SetUid(p, value) ==
    IF value.kind = "none" THEN [p |-> [p EXCEPT !.uid = None], err |-> NoError]
    ELSE IF value.kind = "str" THEN [p |-> [p EXCEPT !.uid = Some(value.items)], err |-> NoError]
    ELSE [p |-> p, err |-> TypeFault]

\* the attribute_names property: the values of the stored text strings
GetAttributeNames(p) ==
    IF Len(p.names) > 0 THEN [k \in 1 .. Len(p.names) |-> p.names[k]] ELSE p.names

\* a setter that reported the index itself
ReportedIndex(i) == i

\* the item number the setters put in the TypeError message for index i
ReportedItem(i) == i + 1

\* a loop that appended every name, seen before or not
RECURSIVE ScanNamesKeepingAll(_, _, _)
ScanNamesKeepingAll(value, i, names) ==
    IF i = Len(value) THEN [err |-> NoError, item |-> 0, typ |-> "", names |-> names]
    ELSE LET name == value[i + 1]
         IN  IF name.kind # "str"
             THEN [err |-> TypeFault, item |-> i + 1, typ |-> name.kind, names |-> names]
             ELSE ScanNamesKeepingAll(value, i + 1, Append(names, name.val))

\* the loop of the attribute_names setter over value[i], value[i+1], ...
RECURSIVE ScanNames(_, _, _)
ScanNames(value, i, names) ==
    IF i = Len(value) THEN [err |-> NoError, item |-> 0, typ |-> "", names |-> names]
    ELSE LET name == value[i + 1]
         IN  IF name.kind # "str"
             THEN [err |-> TypeFault, item |-> ReportedItem(i), typ |-> name.kind, names |-> names]
             ELSE ScanNames(value, i + 1,
                            IF name.val \in Range(names) THEN names ELSE Append(names, name.val))

\* the attribute_names setter
SetAttributeNames(p, value) ==
    IF value.kind = "none"
    THEN [p |-> [p EXCEPT !.names = <<>>], err |-> NoError, item |-> 0, typ |-> ""]
    ELSE IF value.kind = "list"
    THEN LET r == ScanNames(value.items, 0, <<>>)
         IN  IF r.err # NoError
             THEN [p |-> p, err |-> r.err, item |-> r.item, typ |-> r.typ]
             ELSE [p |-> [p EXCEPT !.names = r.names], err |-> NoError, item |-> 0, typ |-> ""]
    ELSE [p |-> p, err |-> TypeFault, item |-> 0, typ |-> ""]

\* istream.read(self.length): the bounded stream and what is left of istream
Bounded(istream) ==
    LET length == StructLength(istream)
        body == StructBody(istream)
    IN  [tstream |-> Take(body, length), rest |-> Drop(body, length)]

\* the while loop of read over the attribute-name fields
RECURSIVE ReadNames(_, _)
ReadNames(tstream, names) ==
    IF is_tag_next(ATTRIBUTE_NAME, tstream)
    THEN ReadNames(FieldRest(tstream), Append(names, FieldValue(tstream)))
    ELSE [names |-> names, tstream |-> tstream]

\* a read that left _uid alone when no identifier is next
RequestReadUidKeeping(p, tstream) ==
    IF is_tag_next(UNIQUE_IDENTIFIER, tstream)
    THEN [uid |-> Some(FieldValue(tstream)), tstream |-> FieldRest(tstream)]
    ELSE [uid |-> p.uid, tstream |-> tstream]

\* the uid read takes from the bounded stream of a request
RequestReadUid(p, tstream) ==
    IF is_tag_next(UNIQUE_IDENTIFIER, tstream)
    THEN [uid |-> Some(FieldValue(tstream)), tstream |-> FieldRest(tstream)]
    ELSE [uid |-> None, tstream |-> tstream]

\* a read that never called is_oversized
RequestCheckSkipped(tstream) == NoError

\* the check read makes once every field is read
RequestCheck(tstream) == is_oversized(tstream)

\* read
RequestRead(p, istream) ==
    LET b == Bounded(istream)
        u == RequestReadUid(p, b.tstream)
        n == ReadNames(u.tstream, <<>>)
    IN  [p |-> [uid |-> u.uid, names |-> n.names],
         err |-> RequestCheck(n.tstream),
         rest |-> b.rest]

RECURSIVE WriteNames(_)
WriteNames(names) ==
    IF names = <<>> THEN <<>>
    ELSE FieldWrite(ATTRIBUTE_NAME, Head(names)) \o WriteNames(Tail(names))

\* a write that forgot the identifier
RequestBodyWithoutUid(p) == WriteNames(p.names)

\* the body a request writes
RequestBody(p) ==
    (IF p.uid # None THEN FieldWrite(UNIQUE_IDENTIFIER, p.uid[1]) ELSE <<>>)
        \o WriteNames(p.names)

\* write, to an empty ostream
RequestWrite(p) ==
    LET tstream == RequestBody(p)
    IN  [err |-> NoError,
         ostream |-> StructHeader(REQUEST_PAYLOAD, Len(tstream)) \o tstream]

\* __eq__
RequestEq(a, b) ==
    IF GetUid(a) = GetUid(b)
    THEN IF Range(GetAttributeNames(a)) = Range(GetAttributeNames(b)) THEN TRUE ELSE FALSE
    ELSE FALSE

\* __ne__
RequestNe(a, b) == ~RequestEq(a, b)

\* __init__(uid, attribute_names)
RequestInit(uid, attribute_names) ==
    LET u == SetUid(NewRequest, uid)
        n == SetAttributeNames(u.p, attribute_names)
    IN  IF u.err # NoError
        THEN [p |-> NewRequest, err |-> u.err, item |-> 0, typ |-> ""]
        ELSE n

(***************************************************************************)
(* GetAttributesResponsePayload: [uid, attrs] are _uid and _attributes;    *)
(* attrs is a reference to a list object, whose elements are in the heap   *)
(***************************************************************************)
\* a list object handed to a setter: the reference and, for reading, its elements
ListRef(l, items) == [kind |-> "list", items |-> items, ref |-> l]

\* __init__, before the setters run
NewResponse == [uid |-> None, attrs |-> Own]

\* the loop of the attributes setter over value[i], value[i+1], ...
RECURSIVE ScanAttributes(_, _)
ScanAttributes(value, i) ==
    IF i = Len(value) THEN [err |-> NoError, item |-> 0, typ |-> ""]
    ELSE LET attribute == value[i + 1]
         IN  IF attribute.kind # "attr"
             THEN [err |-> TypeFault, item |-> ReportedItem(i), typ |-> attribute.kind]
             ELSE ScanAttributes(value, i + 1)

\* the attributes setter.  made: the payload now refers to a list object that
\* was made for it (by list(), or by the caller for this call only), with the
\* elements items
ResponseSetAttributes(p, value) ==
    IF value.kind = "none"
    THEN [p |-> [p EXCEPT !.attrs = Own], made |-> TRUE, items |-> <<>>,
          err |-> NoError, item |-> 0, typ |-> ""]
    ELSE IF value.kind = "list"
    THEN LET r == ScanAttributes(value.items, 0)
         IN  IF r.err # NoError
             THEN [p |-> p, made |-> FALSE, items |-> <<>>,
                   err |-> r.err, item |-> r.item, typ |-> r.typ]
             ELSE [p |-> [p EXCEPT !.attrs = value.ref], made |-> value.ref = Own,
                   items |-> value.items, err |-> NoError, item |-> 0, typ |-> ""]
    ELSE [p |-> p, made |-> FALSE, items |-> <<>>, err |-> TypeFault, item |-> 0, typ |-> ""]

\* the while loop of read over the attribute structures
RECURSIVE ReadAttributes(_, _)
ReadAttributes(tstream, attributes) ==
    IF is_tag_next(ATTRIBUTE, tstream)
    THEN ReadAttributes(FieldRest(tstream), Append(attributes, Attr(FieldValue(tstream))))
    ELSE [attributes |-> attributes, tstream |-> tstream]

\* read
ResponseRead(p, istream) ==
    LET b == Bounded(istream)
    IN  IF is_tag_next(UNIQUE_IDENTIFIER, b.tstream)
        THEN LET u == SetUid(p, TextValue(FieldValue(b.tstream)))
                 a == ReadAttributes(FieldRest(b.tstream), <<>>)
             IN  [p |-> [u.p EXCEPT !.attrs = Own], made |-> TRUE, items |-> a.attributes,
                  err |-> is_oversized(a.tstream), rest |-> b.rest]
        ELSE [p |-> p, made |-> FALSE, items |-> <<>>,
              err |-> MalformedEncodingFault, rest |-> b.rest]

RECURSIVE WriteAttributes(_)
WriteAttributes(attributes) ==
    IF attributes = <<>> THEN <<>>
    ELSE FieldWrite(ATTRIBUTE, Head(attributes).val) \o WriteAttributes(Tail(attributes))

\* an element of _attributes that has no write method
AttributeFault == "AttributeError"

\* a write that took the identifier for optional, as the request's does
ResponseWriteOptionalUid(p, attributes) ==
    LET tstream == (IF p.uid # None THEN FieldWrite(UNIQUE_IDENTIFIER, p.uid[1]) ELSE <<>>)
                       \o WriteAttributes(attributes)
    IN  [err |-> NoError, ostream |-> StructHeader(RESPONSE_PAYLOAD, Len(tstream)) \o tstream]

\* write, to an empty ostream; attributes are the elements of _attributes
ResponseWrite(p, attributes) ==
    IF p.uid # None
    THEN IF \E k \in 1 .. Len(attributes) : attributes[k].kind # "attr"
         THEN [err |-> AttributeFault, ostream |-> <<>>]
         ELSE LET tstream == FieldWrite(UNIQUE_IDENTIFIER, p.uid[1]) \o WriteAttributes(attributes)
              IN  [err |-> NoError,
                   ostream |-> StructHeader(RESPONSE_PAYLOAD, Len(tstream)) \o tstream]
    ELSE [err |-> MissingFieldFault, ostream |-> <<>>]

\* the for loop of __eq__ from index i on
RECURSIVE PairwiseEq(_, _, _)
PairwiseEq(x, y, i) ==
    IF i = Len(x) THEN TRUE
    ELSE IF x[i + 1] # y[i + 1] THEN FALSE
    ELSE PairwiseEq(x, y, i + 1)

\* an __eq__ that compared the attributes as the request compares its names
ResponseEqAsSets(a, x, b, y) ==
    IF GetUid(a) # GetUid(b) THEN FALSE ELSE Range(x) = Range(y)

\* __eq__; x and y are the elements of the two _attributes lists
ResponseEq(a, x, b, y) ==
    IF GetUid(a) # GetUid(b) THEN FALSE
    ELSE IF Len(x) # Len(y) THEN FALSE
    ELSE PairwiseEq(x, y, 0)

\* __ne__
ResponseNe(a, x, b, y) == ~ResponseEq(a, x, b, y)

\* __init__(uid, attributes)
ResponseInit(uid, attributes) ==
    LET u == SetUid(NewResponse, uid)
        a == ResponseSetAttributes(u.p, attributes)
    IN  IF u.err # NoError
        THEN [p |-> NewResponse, made |-> FALSE, items |-> <<>>,
              err |-> u.err, item |-> 0, typ |-> ""]
        ELSE a

(***************************************************************************)
(* Inputs                                                                  *)
(***************************************************************************)
UidValues == {NoneValue, NonListValue} \cup {TextValue(s) : s \in Strings}

NameValues ==
    {NoneValue, NonListValue} \cup {ListValue(q) : q \in SeqsUpTo(NameElems, MaxNames)}

\* lists the caller makes for one call and keeps no reference to
AttributeLists == {ListRef(Own, q) : q \in SeqsUpTo(AttrElems, MaxAttrs)}

RECURSIVE Flatten(_)
Flatten(q) == IF q = <<>> THEN <<>> ELSE Head(q) \o Flatten(Tail(q))

\* the bodies made of at most MaxFields of the fields F
Bodies(F) == {Flatten(q) : q \in SeqsUpTo(F, MaxFields)}

\* the fields a body handed to a request's read is made of
RequestFields ==
    {FieldWrite(UNIQUE_IDENTIFIER, s) : s \in Strings}
        \cup {FieldWrite(ATTRIBUTE_NAME, s) : s \in Strings}
        \cup {FieldWrite(ATTRIBUTE, AttrX.val), Junk}

\* the fields a body handed to a response's read is made of
ResponseFields ==
    {FieldWrite(UNIQUE_IDENTIFIER, s) : s \in Strings}
        \cup {FieldWrite(ATTRIBUTE, a.val) : a \in Attributes}
        \cup {FieldWrite(ATTRIBUTE_NAME, <<1>>), Junk}

\* what follows the payload in the stream, beyond its declared length
RequestTrailer == FieldWrite(ATTRIBUTE_NAME, <<1>>)

ResponseTrailer == FieldWrite(ATTRIBUTE, AttrY.val)

RequestStreams ==
    {StructHeader(REQUEST_PAYLOAD, Len(b)) \o b \o RequestTrailer : b \in Bodies(RequestFields)}

ResponseStreams ==
    {StructHeader(RESPONSE_PAYLOAD, Len(b)) \o b \o ResponseTrailer : b \in Bodies(ResponseFields)}

\* the request payloads a payload is compared with: constructed ones and decoded ones
RequestPeers ==
    {r.p : r \in {z \in {RequestInit(u, v) : u \in UidValues, v \in NameValues} : z.err = NoError}}
        \cup {r.p : r \in {z \in {RequestRead(NewRequest, s) : s \in RequestStreams} :
                             z.err = NoError}}

\* the response payloads a payload is compared with, each with the elements of its list
ResponsePeers ==
    {[uid |-> r.p.uid, items |-> r.items] :
        r \in {z \in {ResponseInit(u, v) : u \in UidValues, v \in AttributeLists} :
                 z.err = NoError}}

(***************************************************************************)
(* State                                                                   *)
(***************************************************************************)
NoPeer == [uid |-> None]

\* what the last call was given and what it returned or raised; on is the
\* class of the payload it was made on
NoLast ==
    [on |-> "none", op |-> "none", err |-> NoError, item |-> 0, typ |-> "",
     arg |-> NoneValue, stream |-> <<>>, rest |-> <<>>, ostream |-> <<>>,
     peer |-> NoPeer, eq |-> FALSE, ne |-> FALSE]

\* the programs that use the payloads: one encodes and decodes requests, one
\* encodes and decodes responses, one keeps the list L it hands to a response.
\* A program whose constructor call raised holds no payload: it is nobody.
Clients == {"request", "response", "owner"}

Nobody == "none"

\* payload = GetAttributesRequestPayload(u, v)
ReqInit(u, v) ==
    LET r == RequestInit(u, v)
    IN  /\ client = IF r.err = NoError THEN "request" ELSE Nobody
        /\ req = r.p
        /\ resp = NewResponse
        /\ heap = [l \in ListIds |-> <<>>]
        /\ last = [NoLast EXCEPT !.on = "request", !.op = "init", !.err = r.err,
                                 !.item = r.item, !.typ = r.typ, !.arg = v]

\* payload = GetAttributesResponsePayload(u, v)
RespInit(u, v) ==
    LET r == ResponseInit(u, v)
    IN  /\ client = IF r.err = NoError THEN "response" ELSE Nobody
        /\ req = NewRequest
        /\ resp = r.p
        /\ heap = [l \in ListIds |-> IF l = Own /\ r.made THEN r.items ELSE <<>>]
        /\ last = [NoLast EXCEPT !.on = "response", !.op = "init", !.err = r.err,
                                 !.item = r.item, !.typ = r.typ, !.arg = v]

\* L = []
OwnerInit ==
    /\ client = "owner"
    /\ req = NewRequest
    /\ resp = NewResponse
    /\ heap = [l \in ListIds |-> <<>>]
    /\ last = NoLast

Init ==
    \/ \E u \in UidValues, v \in NameValues : ReqInit(u, v)
    \/ \E u \in UidValues, v \in {NoneValue, NonListValue} \cup AttributeLists : RespInit(u, v)
    \/ OwnerInit

(***************************************************************************)
(* Calls on a request payload                                              *)
(***************************************************************************)
ReqSetUid(u) ==
    /\ client = "request"
    /\ LET r == SetUid(req, u)
       IN  /\ req' = r.p
           /\ last' = [NoLast EXCEPT !.on = "request", !.op = "uid", !.err = r.err, !.arg = u]
    /\ UNCHANGED <<client, resp, heap>>

ReqSetNames(v) ==
    /\ client = "request"
    /\ LET r == SetAttributeNames(req, v)
       IN  /\ req' = r.p
           /\ last' = [NoLast EXCEPT !.on = "request", !.op = "names", !.err = r.err,
                                     !.item = r.item, !.typ = r.typ, !.arg = v]
    /\ UNCHANGED <<client, resp, heap>>

ReqRead(istream) ==
    /\ client = "request"
    /\ LET r == RequestRead(req, istream)
       IN  /\ req' = r.p
           /\ last' = [NoLast EXCEPT !.on = "request", !.op = "read", !.err = r.err,
                                     !.stream = istream, !.rest = r.rest]
    /\ UNCHANGED <<client, resp, heap>>

ReqWrite ==
    /\ client = "request"
    /\ LET r == RequestWrite(req)
       IN  last' = [NoLast EXCEPT !.on = "request", !.op = "write", !.err = r.err, !.ostream = r.ostream]
    /\ UNCHANGED <<client, req, resp, heap>>

\* write the payload and read what was written into a new payload, the peer
ReqReadBack ==
    /\ client = "request"
    /\ LET w == RequestWrite(req)
           r == RequestRead(NewRequest, w.ostream)
       IN  last' = [NoLast EXCEPT !.on = "request", !.op = "readback", !.err = r.err, !.ostream = w.ostream,
                                  !.rest = r.rest, !.peer = r.p,
                                  !.eq = RequestEq(r.p, req), !.ne = RequestNe(r.p, req)]
    /\ UNCHANGED <<client, req, resp, heap>>

\* payload == peer and payload != peer
ReqCompare(peer) ==
    /\ client = "request"
    /\ last' = [NoLast EXCEPT !.on = "request", !.op = "eq", !.peer = peer,
                              !.eq = RequestEq(req, peer), !.ne = RequestNe(req, peer)]
    /\ UNCHANGED <<client, req, resp, heap>>

(***************************************************************************)
(* Calls on a response payload, and the caller's own list L                *)
(***************************************************************************)
\* the elements of the payload's list
Items == heap[resp.attrs]

\* the heap after a call that left the payload as p; with made, p refers to a
\* list object made for it, with the elements items.  A list nothing refers to
\* any more is dropped.
HeapAfter(p, made, items) ==
    [heap EXCEPT ![Own] = IF made THEN items ELSE IF p.attrs = Own THEN @ ELSE <<>>]

\* payload = GetAttributesResponsePayload(u, L)
OwnerRespInit(u) ==
    /\ client = "owner"
    /\ LET r == ResponseInit(u, ListRef(Shared, heap[Shared]))
           p == IF r.err = NoError THEN r.p ELSE resp
       IN  /\ resp' = p
           /\ heap' = HeapAfter(p, r.err = NoError /\ r.made, r.items)
           /\ last' = [NoLast EXCEPT !.on = "response", !.op = "init", !.err = r.err, !.item = r.item,
                                     !.typ = r.typ, !.arg = ListRef(Shared, heap[Shared])]
    /\ UNCHANGED <<client, req>>

RespSetUid(u) ==
    /\ client \in {"response", "owner"}
    /\ LET r == SetUid(resp, u)
       IN  /\ resp' = r.p
           /\ last' = [NoLast EXCEPT !.on = "response", !.op = "uid", !.err = r.err, !.arg = u]
    /\ UNCHANGED <<client, req, heap>>

RespSetAttrs(v) ==
    /\ client \in {"response", "owner"}
    /\ LET r == ResponseSetAttributes(resp, v)
       IN  /\ resp' = r.p
           /\ heap' = HeapAfter(r.p, r.made, r.items)
           /\ last' = [NoLast EXCEPT !.on = "response", !.op = "attrs", !.err = r.err,
                                     !.item = r.item, !.typ = r.typ, !.arg = v]
    /\ UNCHANGED <<client, req>>

RespRead(istream) ==
    /\ client = "response"
    /\ LET r == ResponseRead(resp, istream)
       IN  /\ resp' = r.p
           /\ heap' = HeapAfter(r.p, r.made, r.items)
           /\ last' = [NoLast EXCEPT !.on = "response", !.op = "read", !.err = r.err,
                                     !.stream = istream, !.rest = r.rest]
    /\ UNCHANGED <<client, req>>

RespWrite ==
    /\ client \in {"response", "owner"}
    /\ LET r == ResponseWrite(resp, Items)
       IN  last' = [NoLast EXCEPT !.on = "response", !.op = "write", !.err = r.err, !.ostream = r.ostream]
    /\ UNCHANGED <<client, req, resp, heap>>

\* write the payload and, when that succeeds, read what was written into a
\* new payload, the peer
RespReadBack ==
    /\ client = "response"
    /\ LET w == ResponseWrite(resp, Items)
           r == ResponseRead(NewResponse, w.ostream)
       IN  /\ w.err = NoError
           /\ last' = [NoLast EXCEPT
                         !.on = "response", !.op = "readback", !.err = r.err, !.ostream = w.ostream,
                         !.rest = r.rest, !.peer = [uid |-> r.p.uid, items |-> r.items],
                         !.eq = ResponseEq(r.p, r.items, resp, Items),
                         !.ne = ResponseNe(r.p, r.items, resp, Items)]
    /\ UNCHANGED <<client, req, resp, heap>>

\* payload == peer and payload != peer
RespCompare(peer) ==
    /\ client = "response"
    /\ last' = [NoLast EXCEPT !.on = "response", !.op = "eq", !.peer = peer,
                              !.eq = ResponseEq(resp, Items, peer, peer.items),
                              !.ne = ResponseNe(resp, Items, peer, peer.items)]
    /\ UNCHANGED <<client, req, resp, heap>>

\* L = []: a list the payload shared with the caller is the payload's own from now on
CallerNew ==
    /\ client = "owner"
    /\ resp' = [resp EXCEPT !.attrs = Own]
    /\ heap' = [heap EXCEPT ![Own] = Items, ![Shared] = <<>>]
    /\ last' = [NoLast EXCEPT !.op = "new"]
    /\ UNCHANGED <<client, req>>

\* L.append(e)
CallerAppend(e) ==
    /\ client = "owner"
    /\ Len(heap[Shared]) < MaxAttrs
    /\ heap' = [heap EXCEPT ![Shared] = Append(@, e)]
    /\ last' = [NoLast EXCEPT !.op = "append"]
    /\ UNCHANGED <<client, req, resp>>

\* L = payload.attributes: the attributes property returns _attributes itself
CallerGet ==
    /\ client = "owner"
    /\ resp' = [resp EXCEPT !.attrs = Shared]
    /\ heap' = [heap EXCEPT ![Own] = <<>>, ![Shared] = Items]
    /\ last' = [NoLast EXCEPT !.op = "get"]
    /\ UNCHANGED <<client, req>>

Next ==
    \/ \E u \in UidValues : ReqSetUid(u)
    \/ \E v \in NameValues : ReqSetNames(v)
    \/ \E s \in RequestStreams : ReqRead(s)
    \/ ReqWrite
    \/ ReqReadBack
    \/ \E peer \in RequestPeers : ReqCompare(peer)
    \/ \E u \in UidValues : OwnerRespInit(u)
    \/ \E u \in UidValues : RespSetUid(u)
    \/ \E v \in {NoneValue, NonListValue} \cup AttributeLists :
          client = "response" /\ RespSetAttrs(v)
    \/ client = "owner" /\ RespSetAttrs(ListRef(Shared, heap[Shared]))
    \/ \E s \in ResponseStreams : RespRead(s)
    \/ RespWrite
    \/ RespReadBack
    \/ \E peer \in ResponsePeers : RespCompare(peer)
    \/ CallerNew
    \/ \E e \in AttrElems : CallerAppend(e)
    \/ CallerGet

Spec == Init /\ [][Next]_vars

(***************************************************************************)
(* Properties                                                              *)
(***************************************************************************)
\* the body of declared length of a stream, and the cells beyond it
DeclaredBody(s) == SubSeq(s, 3, 2 + s[2])

Beyond(s) == SubSeq(s, 3 + s[2], Len(s))

\* a stream without its leading field, when that field has the tag
SkipOne(t, tag) == IF Len(t) > 0 /\ t[1] = tag THEN SubSeq(t, 3 + t[2], Len(t)) ELSE t

\* a stream without its leading fields of the tag
RECURSIVE SkipAll(_, _)
SkipAll(t, tag) ==
    IF Len(t) > 0 /\ t[1] = tag THEN SkipAll(SubSeq(t, 3 + t[2], Len(t)), tag) ELSE t

\* what the body holds after the identifier and the repeated fields of a payload
Leftover(on, s) ==
    SkipAll(SkipOne(DeclaredBody(s), UNIQUE_IDENTIFIER),
            IF on = "request" THEN ATTRIBUTE_NAME ELSE ATTRIBUTE)

UidNotFirst(s) == Len(DeclaredBody(s)) = 0 \/ DeclaredBody(s)[1] # UNIQUE_IDENTIFIER

RECURSIVE SizeOf(_)
SizeOf(values) == IF values = <<>> THEN 0 ELSE 2 + Len(Head(values)) + SizeOf(Tail(values))

\* the cells the fields of the payloads take on the wire
RequestSize == SizeOf(req.uid) + SizeOf(req.names)

ResponseSize == SizeOf(resp.uid) + SizeOf([k \in 1 .. Len(Items) |-> Items[k].val])

Min(S) == CHOOSE x \in S : \A y \in S : x <= y

NoDuplicates(q) == \A i, j \in 1 .. Len(q) : i # j => q[i] # q[j]

FirstIndex(q, x) == Min({k \in 1 .. Len(q) : q[k] = x})

Values(items) == [k \in 1 .. Len(items) |-> items[k].val]

NonStrings(items) == {k \in 1 .. Len(items) : items[k].kind # "str"}

\* C1: a payload written to a stream and read back into a new payload of its
\* class is read without error and the new payload equals the written one
\* (a request with any uid and names, a response with a uid and attributes).
RoundTrip ==
    last.op = "readback" =>
        /\ last.err = NoError
        /\ last.eq
        /\ ~last.ne
        /\ last.rest = <<>>

RoundTripWitness ==
    /\ last.op = "readback"
    /\ last.on = "response"
    /\ Items = <<AttrX, AttrY>>
    /\ last.peer.items = <<AttrX, AttrY>>
    /\ last.eq

\* C2: no two entries of the request's attribute-name list have the same value,
\* whatever constructions, assignments and reads came before.
NoDuplicateNames == NoDuplicates(req.names)

\* the uid and the names or attributes a caller sees on the payloads
Observable == <<GetUid(req), GetAttributeNames(req), GetUid(resp), Items>>

\* C3: a call that fails leaves the uid and the names or attributes of the
\* payload as they were before the call.
FailureLeavesPayloadUnchanged == [][last'.err # NoError => Observable' = Observable]_vars

\* C4: a read fails with the malformed-encoding error whenever the body of
\* declared length still holds cells after the identifier and the repeated
\* fields (a uid after an attribute name included), and it takes nothing from
\* the stream beyond the declared length.
TrailingBytesRejected ==
    last.op = "read" =>
        /\ Len(Leftover(last.on, last.stream)) > 0 => last.err = MalformedEncodingFault
        /\ last.rest = Beyond(last.stream)
        /\ last.on = "request" => RequestSize <= Len(DeclaredBody(last.stream))
        /\ last.on = "response" /\ ~UidNotFirst(last.stream)
              => ResponseSize <= Len(DeclaredBody(last.stream))

TrailingBytesWitness ==
    /\ last.op = "read"
    /\ last.on = "request"
    /\ DeclaredBody(last.stream)
          = FieldWrite(ATTRIBUTE_NAME, <<2, 1>>) \o FieldWrite(UNIQUE_IDENTIFIER, <<1>>)
    /\ last.err = MalformedEncodingFault
    /\ last.rest = RequestTrailer

\* C5: the list a response payload holds is not the list object the caller
\* holds, so that a change of the caller's list changes no payload.
NoListShared == resp.attrs # Shared

\* C6 as claimed: the TypeError of the attribute_names setter names the
\* zero-based index of the first element that is no string.
TypeFaultNamesIndex ==
    (last.on = "request" /\ last.op = "names" /\ last.arg.kind = "list"
        /\ NonStrings(last.arg.items) # {})
    => /\ last.err = TypeFault
       /\ last.item = Min(NonStrings(last.arg.items)) - 1

\* C6 as amended: the TypeError of the attribute_names setter names the
\* one-based position of the first element that is no string (its index plus
\* one), and that element's type.
TypeFaultNamesItem ==
    (last.on = "request" /\ last.op = "names" /\ last.arg.kind = "list"
        /\ NonStrings(last.arg.items) # {})
    => /\ last.err = TypeFault
       /\ last.item = Min(NonStrings(last.arg.items))
       /\ last.typ = last.arg.items[Min(NonStrings(last.arg.items))].kind

TypeFaultNamesWitness ==
    /\ last.on = "request"
    /\ last.op = "names"
    /\ last.arg = ListValue(<<Str(<<1>>), NonConforming>>)
    /\ last.err = TypeFault
    /\ last.item = 2

\* C7: constructing a request with, or assigning attribute_names, a list of
\* strings stores the distinct values of the list, each once, in the order of
\* their first occurrence; None stores the empty list.
NamesStoredDeduplicated ==
    (last.on = "request" /\ last.op \in {"init", "names"} /\ last.err = NoError)
    => IF last.arg.kind = "none" THEN GetAttributeNames(req) = <<>>
       ELSE LET given == Values(last.arg.items)
                stored == GetAttributeNames(req)
            IN  /\ Range(stored) = Range(given)
                /\ NoDuplicates(stored)
                /\ \A i, j \in 1 .. Len(stored) :
                      i < j => FirstIndex(given, stored[i]) < FirstIndex(given, stored[j])

NamesStoredWitness ==
    /\ last.on = "request"
    /\ last.op = "names"
    /\ last.arg = ListValue(<<Str(<<2, 1>>), Str(<<1>>), Str(<<2, 1>>)>>)
    /\ GetAttributeNames(req) = << <<2, 1>>, <<1>> >>

\* C8: two requests are equal iff their uids are equal and their names are the
\* same set of values; two responses are equal iff their uids are equal and
\* their attribute lists are equal element by element, in order; != is the
\* negation of ==.
EqualitySemantics ==
    last.op = "eq" =>
        /\ last.ne = ~last.eq
        /\ IF last.on = "request"
           THEN last.eq = (/\ req.uid = last.peer.uid
                           /\ Range(req.names) = Range(last.peer.names))
           ELSE last.eq = (/\ resp.uid = last.peer.uid
                           /\ Len(Items) = Len(last.peer.items)
                           /\ \A k \in 1 .. Len(Items) : Items[k] = last.peer.items[k])

EqualityWitness ==
    /\ last.op = "eq"
    /\ last.on = "response"
    /\ resp.uid = last.peer.uid
    /\ Items = <<AttrX, AttrY>>
    /\ last.peer.items = <<AttrY, AttrX>>
    /\ ~last.eq
    /\ last.ne

\* the name fields of a request in stored order
RECURSIVE NameFields(_)
NameFields(names) ==
    IF names = <<>> THEN <<>>
    ELSE <<ATTRIBUTE_NAME, Len(Head(names))>> \o Head(names) \o NameFields(Tail(names))

\* C9: writing a response without uid fails with the missing-field error and
\* puts nothing on the stream; writing a request without uid succeeds and the
\* body holds the name fields in stored order and no identifier field.
EncodeWithoutUid ==
    last.op = "write" =>
        /\ (last.on = "response" /\ resp.uid = None)
              => (last.err = MissingFieldFault /\ last.ostream = <<>>)
        /\ (last.on = "request" /\ req.uid = None)
              => /\ last.err = NoError
                 /\ last.ostream
                      = <<REQUEST_PAYLOAD, Len(NameFields(req.names))>> \o NameFields(req.names)

EncodeWithoutUidWitness ==
    /\ last.op = "write"
    /\ last.on = "response"
    /\ resp.uid = None
    /\ Items = <<AttrX>>
    /\ last.err = MissingFieldFault
    /\ last.ostream = <<>>

\* C10: reading a response from a body that does not start with the identifier
\* (an empty body, a body that starts with an attribute) fails with the
\* malformed-encoding error; reading a request from such a body does not fail
\* for that, and the request has no uid afterwards, whatever it had before.
UidAtDecode ==
    (last.op = "read" /\ UidNotFirst(last.stream))
    => IF last.on = "response" THEN last.err = MalformedEncodingFault
       ELSE /\ req.uid = None
            /\ GetUid(req) = None
            /\ last.err # NoError => Len(Leftover("request", last.stream)) > 0

UidAtDecodeWitness ==
    /\ last.op = "read"
    /\ last.on = "request"
    /\ DeclaredBody(last.stream) = FieldWrite(ATTRIBUTE_NAME, <<1>>)
    /\ req = [uid |-> None, names |-> << <<1>> >>]
    /\ last.err = NoError

====
